---- MODULE Spec2Model ----
(***************************************************************************)
(* A model of qglviewer::Vec as implemented in QGLViewer/vec.cpp: the two  *)
(* projections (projectOnAxis, projectOnPlane) and the QDomElement         *)
(* serialization (Vec(const QDomElement&), domElement, initFromDOMElement).*)
(*                                                                         *)
(* The components of a Vec are binary floating point numbers.  They are    *)
(* modelled as such: a number is m * 2^e with a mantissa of at most        *)
(* Precision bits, every arithmetic operation rounds its exact result to   *)
(* the nearest such number (ties to even), and a division by zero gives    *)
(* an infinity or a NaN, as IEEE 754 arithmetic does.  The exponent range  *)
(* is not bounded: the inputs of the model are of moderate magnitude, far  *)
(* from the overflow and underflow thresholds of the C++ types.  The sign  *)
(* of zero is not modelled (-0 == 0 in C++).                               *)
(*                                                                         *)
(* Attribute values are strings, modelled as sequences of characters;      *)
(* QString::number formats and QString::toFloat parses them.               *)
(***************************************************************************)
EXTENDS Integers, Sequences, FiniteSets, TLC

\* Bits of mantissa of the model's floating point numbers.
Precision == 24

----------------------------------------------------------------------------
(* Floating point numbers.                                                 *)

Abs(n) == IF n < 0 THEN -n ELSE n

Sign(n) == IF n < 0 THEN -1 ELSE 1

RECURSIVE BitLen(_)
BitLen(n) == IF n = 0 THEN 0 ELSE 1 + BitLen(n \div 2)

\* The finite number m * 2^e in its one normal form: m odd, or 0 * 2^0.
RECURSIVE Fin(_, _)
Fin(m, e) ==
    IF m = 0 THEN [k |-> "fin", m |-> 0, e |-> 0]
    ELSE IF m % 2 = 0 THEN Fin(m \div 2, e + 1)
    ELSE [k |-> "fin", m |-> m, e |-> e]

Inf(s) == [k |-> "inf", m |-> s, e |-> 0]

NaN == [k |-> "nan", m |-> 0, e |-> 0]

Zero == Fin(0, 0)

IsFin(a) == a.k = "fin"

IsNaN(a) == a.k = "nan"

Int2F(n) == Fin(n, 0)

\* sign * (m + f) * 2^e, 0 <= f < 1 and f > 0 iff sticky, rounded to the
\* nearest number of Precision bits, ties to even.  With sticky set m has at
\* least Precision + 2 bits.
Round(sign, m, e, sticky) ==
    LET b == BitLen(m) IN
    IF b <= Precision THEN Fin(sign * m, e)
    ELSE LET sh   == b - Precision
             q    == m \div (2 ^ sh)
             r    == m % (2 ^ sh)
             half == 2 ^ (sh - 1)
             up   == \/ r > half
                     \/ r = half /\ sticky
                     \/ r = half /\ ~sticky /\ q % 2 = 1
         IN Fin(sign * (IF up THEN q + 1 ELSE q), e + sh)

Neg(a) == IF IsNaN(a) THEN NaN ELSE [a EXCEPT !.m = -a.m]

\* Bits of one limb of a product too long for one machine word.
LimbBits == (Precision + 1) \div 2

\* sign * x * y * 2^e rounded, for mantissas x, y of at most Precision bits.
\* A product of more than 30 bits is computed in two limbs of 2 * LimbBits
\* bits and cut to 30 bits, the bits cut making the sticky bit.
MulMant(sign, x, y, e) ==
    IF BitLen(x) + BitLen(y) <= 30 THEN Round(sign, x * y, e, FALSE)
    ELSE LET B    == 2 ^ LimbBits
             x1   == x \div B
             x0   == x % B
             y1   == y \div B
             y0   == y % B
             low  == x0 * y0
             mid  == x1 * y0 + x0 * y1 + (low \div B)
             high == x1 * y1 + (mid \div B)
             rest == (mid % B) * B + (low % B)
             t    == IF 30 - BitLen(high) < 2 * LimbBits
                     THEN 30 - BitLen(high) ELSE 2 * LimbBits
             cut  == 2 ^ (2 * LimbBits - t)
         IN Round(sign, high * (2 ^ t) + (rest \div cut),
                  e + 2 * LimbBits - t, rest % cut # 0)

\* a * b
Mul(a, b) ==
    IF IsNaN(a) \/ IsNaN(b) THEN NaN
    ELSE IF ~IsFin(a) \/ ~IsFin(b)
         THEN IF a.m = 0 \/ b.m = 0 THEN NaN ELSE Inf(Sign(a.m) * Sign(b.m))
    ELSE MulMant(Sign(a.m) * Sign(b.m), Abs(a.m), Abs(b.m), a.e + b.e)

\* The long division of num by den: the quotient is (q + r/den) * 2^e.
\* Bits are produced until the quotient is exact or has Precision + 2 bits.
RECURSIVE LongDiv(_, _, _, _)
LongDiv(q, r, den, e) ==
    IF r = 0 \/ BitLen(q) >= Precision + 2 THEN [q |-> q, r |-> r, e |-> e]
    ELSE LongDiv(2 * q + (IF 2 * r >= den THEN 1 ELSE 0),
                 (2 * r) % den, den, e - 1)

\* a / b
Div(a, b) ==
    IF IsNaN(a) \/ IsNaN(b) THEN NaN
    ELSE IF ~IsFin(a) THEN (IF ~IsFin(b) THEN NaN
                            ELSE Inf(Sign(a.m) * Sign(b.m)))
    ELSE IF ~IsFin(b) THEN Zero
    ELSE IF b.m = 0 THEN (IF a.m = 0 THEN NaN ELSE Inf(Sign(a.m)))
    ELSE LET num == Abs(a.m)
             den == Abs(b.m)
             d   == LongDiv(num \div den, num % den, den, a.e - b.e)
         IN Round(Sign(a.m) * Sign(b.m), d.q, d.e, d.r # 0)

\* Bits the aligned operands of an addition are held in.
AddBits == Precision + 5

\* a + b
Add(a, b) ==
    IF IsNaN(a) \/ IsNaN(b) THEN NaN
    ELSE IF ~IsFin(a) THEN (IF ~IsFin(b) /\ a.m # b.m THEN NaN ELSE a)
    ELSE IF ~IsFin(b) THEN b
    ELSE IF a.m = 0 THEN b
    ELSE IF b.m = 0 THEN a
    ELSE LET hi == IF a.e >= b.e THEN a ELSE b
             lo == IF a.e >= b.e THEN b ELSE a
             d  == hi.e - lo.e
         IN IF BitLen(Abs(hi.m)) + d <= AddBits
            THEN LET s == hi.m * (2 ^ d) + lo.m
                 IN Round(Sign(s), Abs(s), lo.e, FALSE)
            ELSE \* lo is below hi / 2: it is cut to the bits above 2^e2,
                 \* the rest of it is the sticky bit.
                 LET up  == AddBits - BitLen(Abs(hi.m))
                     e2  == hi.e - up
                     h   == Abs(hi.m) * (2 ^ up)
                     far == e2 - lo.e >= BitLen(Abs(lo.m))
                     cut == IF far THEN 1 ELSE 2 ^ (e2 - lo.e)
                     l   == IF far THEN 0 ELSE Abs(lo.m) \div cut
                     st  == far \/ Abs(lo.m) % cut # 0
                     mag == IF Sign(hi.m) = Sign(lo.m) THEN h + l
                            ELSE IF st THEN h - l - 1 ELSE h - l
                 IN Round(Sign(hi.m), mag, e2, st)

Sub(a, b) == Add(a, Neg(b))

\* a < 1.0E-10.  The literal lies between 2^-34 and 2^-33, where it is
\* EpsMant * 2^-63 cut to 30 bits: a number of that binade is compared
\* through its mantissa scaled to 30 bits.
EpsMant == 922337203

LessEps(a) ==
    IF IsNaN(a) THEN FALSE
    ELSE IF ~IsFin(a) THEN a.m < 0
    ELSE IF a.m <= 0 THEN TRUE
    ELSE LET top == BitLen(a.m) + a.e
         IN IF top < -33 THEN TRUE
            ELSE IF top > -33 THEN FALSE
            ELSE a.m * (2 ^ (30 - BitLen(a.m))) <= EpsMant

----------------------------------------------------------------------------
(* Vec: the components v_[0], v_[1], v_[2] (x, y, z) are v[1], v[2], v[3]. *)

MkVec(x, y, z) == <<x, y, z>>

\* operator*(const Vec&, const Vec&): the dot product.
Dot(a, b) == Add(Add(Mul(a[1], b[1]), Mul(a[2], b[2])), Mul(a[3], b[3]))

\* Vec::squaredNorm()
squaredNorm(a) == Add(Add(Mul(a[1], a[1]), Mul(a[2], a[2])), Mul(a[3], a[3]))

\* operator*(float k, const Vec&)
Scale(k, a) == MkVec(Mul(k, a[1]), Mul(k, a[2]), Mul(k, a[3]))

\* operator-(const Vec&, const Vec&), and Vec::operator-=
VecSub(a, b) == MkVec(Sub(a[1], b[1]), Sub(a[2], b[2]), Sub(a[3], b[3]))

\* operator+(const Vec&, const Vec&)
VecAdd(a, b) == MkVec(Add(a[1], b[1]), Add(a[2], b[2]), Add(a[3], b[3]))

\* cross(const Vec&, const Vec&)
Cross(a, b) == MkVec(Sub(Mul(a[2], b[3]), Mul(a[3], b[2])),
                     Sub(Mul(a[3], b[1]), Mul(a[1], b[3])),
                     Sub(Mul(a[1], b[2]), Mul(a[2], b[1])))

\* The test of the projections without its #ifndef QT_NO_DEBUG: release builds
\* warn too.
projectionWarningsAlways(dbg, arg) ==
    IF LessEps(squaredNorm(arg)) THEN 1 ELSE 0

\* The qWarning calls of a projection, by build (dbg: QT_NO_DEBUG is not
\* defined): one in a debug build when the squared norm of the argument is
\* below 1.0E-10, none otherwise.
projectionWarnings(dbg, arg) ==
    IF dbg /\ LessEps(squaredNorm(arg)) THEN 1 ELSE 0

\* A projectOnAxis that does not divide by the squared norm: right for unit
\* directions only.
projectOnAxisUnit(self, direction) ==
    Scale(Dot(self, direction), direction)

\* A projectOnAxis that divides by the squared norm of the projected vector
\* in place of the direction's.
projectOnAxisSelf(self, direction) ==
    Scale(Div(Dot(self, direction), squaredNorm(self)), direction)

\* Vec::projectOnAxis: the value assigned to *this.
projectOnAxis(self, direction) ==
    Scale(Div(Dot(self, direction), squaredNorm(direction)), direction)

\* A projectOnPlane that does not divide by the squared norm: right for unit
\* normals only.
projectOnPlaneUnit(self, normal) ==
    VecSub(self, Scale(Dot(self, normal), normal))

\* A projectOnPlane whose division traps on a null divisor: the call yields
\* no vector.
projectOnPlaneTrap(self, normal) ==
    IF squaredNorm(normal) = Zero THEN <<>>
    ELSE VecSub(self, Scale(Div(Dot(self, normal), squaredNorm(normal)), normal))

\* A projectOnPlane that adds the component along the normal in place of
\* removing it.
projectOnPlaneAdd(self, normal) ==
    VecAdd(self, Scale(Div(Dot(self, normal), squaredNorm(normal)), normal))

\* Vec::projectOnPlane: the value *this holds after the -=.
projectOnPlane(self, normal) ==
    VecSub(self, Scale(Div(Dot(self, normal), squaredNorm(normal)), normal))

----------------------------------------------------------------------------
(* Strings are sequences of characters.  QString::number(double) formats   *)
(* with format 'g' and precision 6; QString::toFloat parses.               *)

DigitChars == <<"0", "1", "2", "3", "4", "5", "6", "7", "8", "9">>

IsDigit(c) == \E i \in 1..10 : DigitChars[i] = c

DigitVal(c) == (CHOOSE i \in 1..10 : DigitChars[i] = c) - 1

RECURSIVE Pow10(_)
Pow10(n) == IF n = 0 THEN 1 ELSE 10 * Pow10(n - 1)

RECURSIVE NumDigits(_)
NumDigits(n) == IF n < 10 THEN 1 ELSE 1 + NumDigits(n \div 10)

\* The decimal digits of n, most significant first.
RECURSIVE Digits(_)
Digits(n) == IF n < 10 THEN <<n>> ELSE Append(Digits(n \div 10), n % 10)

RECURSIVE StripZeros(_)
StripZeros(ds) ==
    IF Len(ds) > 1 /\ ds[Len(ds)] = 0 THEN StripZeros(SubSeq(ds, 1, Len(ds) - 1))
    ELSE ds

Chars(ds) == [i \in 1..Len(ds) |-> DigitChars[ds[i] + 1]]

Zeros(n) == [i \in 1..n |-> 0]

\* The default precision of QString::number(double n, char format = 'g',
\* int precision = 6): the number of significant digits.
NumberPrecision == 6

\* The digits of (the number of digits ds) * c + carry, for a small c.
RECURSIVE MulSmall(_, _, _)
MulSmall(ds, c, carry) ==
    IF Len(ds) = 0 THEN (IF carry = 0 THEN <<>> ELSE Digits(carry))
    ELSE LET t == ds[Len(ds)] * c + carry
         IN Append(MulSmall(SubSeq(ds, 1, Len(ds) - 1), c, t \div 10), t % 10)

\* The digits of (the number of digits ds) * 5^k.
RECURSIVE Times5(_, _)
Times5(ds, k) ==
    IF k = 0 THEN ds
    ELSE IF k >= 6 THEN Times5(MulSmall(ds, 15625, 0), k - 6)
    ELSE MulSmall(ds, 5 ^ k, 0)

\* The digits of (the number of digits ds) * 2^k.
RECURSIVE Times2(_, _)
Times2(ds, k) ==
    IF k = 0 THEN ds
    ELSE IF k >= 16 THEN Times2(MulSmall(ds, 65536, 0), k - 16)
    ELSE MulSmall(ds, 2 ^ k, 0)

\* The exact decimal expansion of m * 2^e, m > 0: the digits of m * 2^e, or
\* for e < 0 those of m * 5^-e, the last -e of which follow the point.
Decimal(m, e) ==
    IF e >= 0 THEN [ds |-> Times2(Digits(m), e), frac |-> 0]
    ELSE [ds |-> Times5(Digits(m), -e), frac |-> -e]

RECURSIVE DigitsValue(_)
DigitsValue(ds) ==
    IF Len(ds) = 0 THEN 0
    ELSE 10 * DigitsValue(SubSeq(ds, 1, Len(ds) - 1)) + ds[Len(ds)]

\* The digits cut off against half a unit of the last digit kept.
TailCmp(rest) ==
    IF Len(rest) = 0 \/ rest[1] < 5 THEN "lt"
    ELSE IF rest[1] > 5 \/ \E i \in 2..Len(rest) : rest[i] # 0 THEN "gt"
    ELSE "eq"

\* The decimal expansion of m * 2^e, m > 0, cut to NumberPrecision digits:
\* sig * 10^(x - NumberPrecision + 1), and the digits cut off.
Expand(m, e) ==
    LET d == Decimal(m, e)
        n == Len(d.ds)
        p == NumberPrecision
    IN [sig  |-> DigitsValue(IF n >= p THEN SubSeq(d.ds, 1, p)
                             ELSE d.ds \o Zeros(p - n)),
        x    |-> n - d.frac - 1,
        tail |-> TailCmp(SubSeq(d.ds, p + 1, n))]

\* The expansion rounded to the nearest, ties to even.
RoundDecimal(x) ==
    LET up  == x.tail = "gt" \/ (x.tail = "eq" /\ x.sig % 2 = 1)
        sig == IF up THEN x.sig + 1 ELSE x.sig
    IN IF sig = Pow10(NumberPrecision)
       THEN [sig |-> Pow10(NumberPrecision - 1), x |-> x.x + 1]
       ELSE [sig |-> sig, x |-> x.x]

\* Format 'g': scientific notation when the decimal exponent x is below -4
\* or not below the precision, fixed notation otherwise; trailing zeros of
\* the fraction, and a decimal point with nothing after it, are dropped.
FormatG(sig, x) ==
    LET ds == StripZeros(Digits(sig))
    IN IF x < -4 \/ x >= NumberPrecision
       THEN Chars(<<ds[1]>>)
            \o (IF Len(ds) > 1 THEN <<".">> \o Chars(SubSeq(ds, 2, Len(ds)))
                ELSE <<>>)
            \o <<"e", IF x < 0 THEN "-" ELSE "+">>
            \o Chars(IF Abs(x) < 10 THEN <<0, Abs(x)>> ELSE Digits(Abs(x)))
       ELSE IF x >= 0
       THEN LET all == IF Len(ds) < x + 1 THEN ds \o Zeros(x + 1 - Len(ds))
                       ELSE ds
            IN Chars(SubSeq(all, 1, x + 1))
               \o (IF Len(all) > x + 1
                   THEN <<".">> \o Chars(SubSeq(all, x + 2, Len(all)))
                   ELSE <<>>)
       ELSE <<"0", ".">> \o Chars(Zeros(-x - 1) \o ds)

\* QString::number(x)
number(a) ==
    IF IsNaN(a) THEN <<"n", "a", "n">>
    ELSE IF ~IsFin(a) THEN (IF a.m < 0 THEN <<"-">> ELSE <<>>) \o <<"i", "n", "f">>
    ELSE IF a.m = 0 THEN <<"0">>
    ELSE LET d == RoundDecimal(Expand(Abs(a.m), a.e))
         IN (IF a.m < 0 THEN <<"-">> ELSE <<>>) \o FormatG(d.sig, d.x)

\* The index of the last character of the run of digits of s that starts at
\* i; i - 1 when s[i] is no digit.
RECURSIVE DigitRunEnd(_, _)
DigitRunEnd(s, i) ==
    IF i <= Len(s) /\ IsDigit(s[i]) THEN DigitRunEnd(s, i + 1) ELSE i - 1

DigitVals(s) == [i \in 1..Len(s) |-> DigitVal(s[i])]

AllZero(ds) == \A i \in 1..Len(ds) : ds[i] = 0

\* The binary expansion of mant + 0.ds, three bits a step, until the
\* fraction is used up or mant has Precision + 2 bits: the number is
\* (mant + 0.ds) * 2^-sh.
RECURSIVE Binary(_, _, _)
Binary(mant, sh, ds) ==
    IF AllZero(ds) \/ BitLen(mant) >= Precision + 2
    THEN [mant |-> mant, sh |-> sh, sticky |-> ~AllZero(ds)]
    ELSE LET t     == MulSmall(ds, 8, 0)
             carry == IF Len(t) > Len(ds) THEN t[1] ELSE 0
             rest  == IF Len(t) > Len(ds) THEN SubSeq(t, 2, Len(t)) ELSE t
         IN Binary(8 * mant + carry, sh + 3, rest)

\* The digits of (the number of digits ds) \div 8, as many as ds has.
RECURSIVE DivEight(_, _)
DivEight(ds, carry) ==
    IF Len(ds) = 0 THEN <<>>
    ELSE LET t == 10 * carry + ds[1]
         IN <<t \div 8>> \o DivEight(Tail(ds), t % 8)

RECURSIVE DropZeros(_)
DropZeros(ds) == IF Len(ds) > 1 /\ ds[1] = 0 THEN DropZeros(Tail(ds)) ELSE ds

\* The integer of digits ds cut, three bits a step, to at most Precision + 4
\* bits: it is (mant + f) * 2^sh, 0 <= f < 1 and f > 0 iff sticky.
RECURSIVE Leading(_, _, _)
Leading(ds, sh, sticky) ==
    IF Len(ds) <= 9 /\ BitLen(DigitsValue(ds)) <= Precision + 4
    THEN [mant |-> DigitsValue(ds), sh |-> sh, sticky |-> sticky]
    ELSE Leading(DropZeros(DivEight(ds, 0)), sh + 3,
                 sticky \/ DigitsValue(SubSeq(ds, Len(ds) - 2, Len(ds))) % 8 # 0)

\* The number nearest to sign * 0.ds * 10^pt, ds the digits of the mantissa
\* and pt the place of the decimal point in it.
DecimalToFloat(sign, ds, pt) ==
    LET all  == IF pt < 0 THEN Zeros(-pt) \o ds
                ELSE IF pt > Len(ds) THEN ds \o Zeros(pt - Len(ds)) ELSE ds
        p    == IF pt < 0 THEN 0 ELSE pt
        frac == SubSeq(all, p + 1, Len(all))
        int  == Leading(DropZeros(<<0>> \o SubSeq(all, 1, p)), 0, FALSE)
        b    == Binary(int.mant, 0, frac)
    IN IF int.sh > 0
       THEN Round(sign, int.mant, int.sh, int.sticky \/ ~AllZero(frac))
       ELSE Round(sign, b.mant, -b.sh, b.sticky)

\* QString::toFloat(&ok): [ok, value].  The text is "nan", "inf", "+inf",
\* "-inf", or [sign] digits [. digits] [e [sign] digits] with a digit in the
\* mantissa; anything else is refused.
toFloat(s) ==
    LET n      == Len(s)
        signed == n >= 1 /\ s[1] \in {"+", "-"}
        sign   == IF n >= 1 /\ s[1] = "-" THEN -1 ELSE 1
        i1     == IF signed THEN 2 ELSE 1
        j1     == DigitRunEnd(s, i1)
        dot    == j1 + 1 <= n /\ s[j1 + 1] = "."
        j2     == IF dot THEN DigitRunEnd(s, j1 + 2) ELSE j1
        ints   == SubSeq(s, i1, j1)
        fracs  == IF dot THEN SubSeq(s, j1 + 2, j2) ELSE <<>>
        hasExp == j2 + 1 <= n /\ s[j2 + 1] \in {"e", "E"}
        eSign  == j2 + 2 <= n /\ s[j2 + 2] \in {"+", "-"}
        i4     == IF eSign THEN j2 + 3 ELSE j2 + 2
        j4     == DigitRunEnd(s, i4)
        exps   == IF hasExp THEN SubSeq(s, i4, j4) ELSE <<>>
        last   == IF hasExp THEN j4 ELSE j2
        exp    == (IF eSign /\ s[j2 + 2] = "-" THEN -1 ELSE 1)
                  * DigitsValue(DigitVals(exps))
    IN IF s = <<"n", "a", "n">> THEN [ok |-> TRUE, value |-> NaN]
       ELSE IF s \in {<<"i", "n", "f">>, <<"+", "i", "n", "f">>}
       THEN [ok |-> TRUE, value |-> Inf(1)]
       ELSE IF s = <<"-", "i", "n", "f">> THEN [ok |-> TRUE, value |-> Inf(-1)]
       ELSE IF /\ Len(ints) + Len(fracs) >= 1
               /\ hasExp => Len(exps) >= 1
               /\ last = n
       THEN [ok |-> TRUE,
             value |-> DecimalToFloat(sign, DigitVals(ints \o fracs),
                                      Len(ints) + exp)]
       ELSE [ok |-> FALSE, value |-> Zero]

----------------------------------------------------------------------------
(* QDomElement: a tag name, attributes (a function from the names set to   *)
(* their texts) and the parent node ("none" for a node outside any tree).  *)

Element(tag, attrs) == [tag |-> tag, attrs |-> attrs, parent |-> "none"]

\* QDomDocument::createElement(name)
createElement(name) == Element(name, <<>>)

\* QDomElement::setAttribute(name, value)
setAttribute(de, name, value) ==
    [de EXCEPT !.attrs = [a \in DOMAIN de.attrs \cup {name} |->
                             IF a = name THEN value ELSE de.attrs[a]]]

\* DomUtils::floatFromDom(e, attribute, defValue): the attribute read as a
\* number, or defValue and a warning when it is missing or is no number.
floatFromDom(e, attribute, defValue) ==
    IF attribute \notin DOMAIN e.attrs
    THEN [value |-> defValue, warnings |-> 1]
    ELSE LET r == toFloat(e.attrs[attribute])
         IN IF r.ok THEN [value |-> r.value, warnings |-> 0]
            ELSE [value |-> defValue, warnings |-> 1]

\* The attribute names Vec::Vec(const QDomElement&) reads, in order.
attribute == <<"x", "y", "z">>

\* The loop of Vec::Vec(const QDomElement&) from index i on: v_[i] is
\* assigned for every i below attribute.size().  v is the storage of the new
\* object, w the warnings so far.
RECURSIVE ctorLoop(_, _, _, _)
ctorLoop(v, w, element, i) ==
    IF i > Len(attribute) THEN [vec |-> v, warnings |-> w]
    ELSE LET f == floatFromDom(element, attribute[i], Zero)
         IN ctorLoop([v EXCEPT ![i] = f.value], w + f.warnings, element, i + 1)

\* A constructor that returns at the first attribute that is missing or is no
\* number, leaving the components after it as the storage held them.
RECURSIVE ctorReturnAtFailure(_, _, _, _)
ctorReturnAtFailure(v, w, element, i) ==
    IF i > Len(attribute) THEN [vec |-> v, warnings |-> w]
    ELSE LET f == floatFromDom(element, attribute[i], Zero)
             next == [v EXCEPT ![i] = f.value]
         IN IF f.warnings > 0 THEN [vec |-> next, warnings |-> w + 1]
            ELSE ctorReturnAtFailure(next, w, element, i + 1)

VecFromElementOrReturn(raw, element) == ctorReturnAtFailure(raw, 0, element, 1)

\* Vec::Vec(const QDomElement&), on storage that holds raw.
VecFromElement(raw, element) == ctorLoop(raw, 0, element, 1)

\* A domElement that writes z to the attribute y and y to the attribute z.
domElementSwapped(self, name) ==
    Element(name, [x |-> number(self[1]), y |-> number(self[3]),
                   z |-> number(self[2])])

\* A domElement that also appends the element to the document.
domElementAppended(self, name) ==
    [Element(name, [x |-> number(self[1]), y |-> number(self[2]),
                    z |-> number(self[3])])
     EXCEPT !.parent = "root"]

\* Vec::domElement(name, document): the element returned.
domElement(self, name) ==
    LET de == createElement(name)
    IN setAttribute(setAttribute(setAttribute(de, "x", number(self[1])),
                                 "y", number(self[2])),
                    "z", number(self[3]))

----------------------------------------------------------------------------
(* The inputs of the model.                                                *)

\* Calls made on a Vec after its construction.
MaxCalls == 2

V3(x, y, z) == MkVec(Int2F(x), Int2F(y), Int2F(z))

ZeroVec == V3(0, 0, 0)

\* The vectors a Vec is constructed with: among them 1.5, -2.25, 1234567,
\* and the numbers nearest to 0.1 and to -1/3.
Vectors ==
    {V3(1, 2, 3), V3(1, 1, 1), ZeroVec, MkVec(Fin(3, -1), Fin(-9, -2), Zero),
     MkVec(Int2F(1234567), Div(Int2F(1), Int2F(10)), Div(Int2F(-1), Int2F(3)))}

\* The directions and normals: unit and not, the null vector, and two of
\* squared norm just below and just above 1.0E-10.
Directions ==
    {V3(1, 0, 0), V3(0, 0, 1), V3(1, 1, 1), V3(1, 3, 0), ZeroVec,
     MkVec(Fin(5, -19), Zero, Zero), MkVec(Fin(11, -20), Zero, Zero)}

Names == {"pos", "sunPosition"}

\* Attribute texts that are numbers, one an axis, and texts that are not.
GoodText == [x |-> <<"1", ".", "5">>, y |-> <<"-", "2", ".", "2", "5">>,
             z |-> <<"1", "e", "-", "1">>]

BadText == [x |-> <<"a", "b", "c">>, y |-> <<>>, z |-> <<"1", ".", "5", "x">>]

\* The element whose attributes in good hold a number, those in bad hold no
\* number, and the others are missing.
Sample(good, bad) ==
    Element("anyTagName",
            [a \in good \cup bad |-> IF a \in good THEN GoodText[a]
                                     ELSE BadText[a]])

Axes == {"x", "y", "z"}

\* The elements read: every set of good attributes, the others missing or
\* no numbers, and one of the texts nan, -inf and 1234567.
InputElements ==
    {Sample(g, {}) : g \in SUBSET Axes}
    \cup {Sample(g, Axes \ g) : g \in SUBSET Axes}
    \cup {Sample({"x"}, {"y"}), Sample({"z"}, {"x"}),
          Element("anyTagName",
                  [x |-> <<"n", "a", "n">>, y |-> <<"-", "i", "n", "f">>,
                   z |-> <<"1", "2", "3", "4", "5", "6", "7">>])}

\* The elements an existing Vec is reset from.
ResetElements ==
    {Sample(Axes, {}), Sample({"x", "z"}, {}), Sample({"y"}, {"x"}),
     Sample({}, {}), Sample({}, Axes),
     Element("anyTagName",
             [x |-> <<"n", "a", "n">>, y |-> <<"-", "i", "n", "f">>,
              z |-> <<"1", "2", "3", "4", "5", "6", "7">>])}

\* What the storage of a Vec may hold before its constructor has run.
Garbage == {MkVec(NaN, NaN, NaN), V3(7, 7, 7)}

----------------------------------------------------------------------------
(* The state: one Vec (this), the nodes the QDomDocument has created, the  *)
(* number of calls made on the Vec, and the last two of them (last, and    *)
(* prev before it) with their arguments and results.  A call's warnings    *)
(* are the qWarning calls it makes in a debug build (warnings[TRUE]) and   *)
(* in a release build, QT_NO_DEBUG defined (warnings[FALSE]).              *)

VARIABLES this, constructed, document, calls, prev, last

vars == <<this, constructed, document, calls, prev, last>>

Call(op, arg, before, after, warnings, ret) ==
    [op |-> op, arg |-> arg, before |-> before, after |-> after,
     warnings |-> warnings, ret |-> ret]

Builds == BOOLEAN

NoWarnings == [dbg \in Builds |-> 0]

NoCall == Call("none", 0, ZeroVec, ZeroVec, NoWarnings, 0)

Init ==
    /\ this \in Garbage
    /\ constructed = FALSE
    /\ document = <<>>
    /\ calls = 0
    /\ prev = NoCall
    /\ last = NoCall

\* Vec(x, y, z)
Construct(v) ==
    /\ ~constructed
    /\ this' = v
    /\ constructed' = TRUE
    /\ last' = Call("Vec", v, ZeroVec, v, NoWarnings, 0)
    /\ UNCHANGED <<document, calls, prev>>

\* Vec(const QDomElement& element)
ConstructFromElement(element) ==
    /\ ~constructed
    /\ LET r == VecFromElement(this, element)
       IN /\ this' = r.vec
          /\ last' = Call("VecFromElement", element, ZeroVec, r.vec,
                          [dbg \in Builds |-> r.warnings], 0)
    /\ constructed' = TRUE
    /\ UNCHANGED <<document, calls, prev>>

CanCall == constructed /\ calls < MaxCalls

\* The call is counted and becomes the last one.
Called(c) ==
    /\ calls' = calls + 1
    /\ prev' = last
    /\ last' = c

ProjectOnAxis(direction) ==
    /\ CanCall
    /\ this' = projectOnAxis(this, direction)
    /\ Called(Call("projectOnAxis", direction, this, this',
                   [dbg \in Builds |-> projectionWarnings(dbg, direction)], 0))
    /\ UNCHANGED <<constructed, document>>

ProjectOnPlane(normal) ==
    /\ CanCall
    /\ this' = projectOnPlane(this, normal)
    /\ Called(Call("projectOnPlane", normal, this, this',
                   [dbg \in Builds |-> projectionWarnings(dbg, normal)], 0))
    /\ UNCHANGED <<constructed, document>>

\* An initFromDOMElement that assigns the components whose attribute is
\* present and keeps the others.
initFromDOMElementPresent(raw, element) ==
    LET r == VecFromElement(raw, element)
    IN [r EXCEPT !.vec = [i \in 1..3 |->
                             IF attribute[i] \in DOMAIN element.attrs
                             THEN r.vec[i] ELSE this[i]]]

\* Vec::initFromDOMElement: const Vec v(element); *this = v;
initFromDOMElement(raw, element) == VecFromElement(raw, element)

InitFromDOMElement(element) ==
    /\ CanCall
    /\ \E raw \in Garbage :
          LET r == initFromDOMElement(raw, element)
          IN /\ this' = r.vec
             /\ Called(Call("initFromDOMElement", element, this, r.vec,
                            [dbg \in Builds |-> r.warnings], 0))
    /\ UNCHANGED <<constructed, document>>

\* Vec::domElement: the node is created by the document and returned; ret
\* is its place among the nodes of the document.
DomElement(name) ==
    /\ CanCall
    /\ document' = Append(document, domElement(this, name))
    /\ Called(Call("domElement", name, this, this, NoWarnings,
                   Len(document) + 1))
    /\ UNCHANGED <<this, constructed>>

\* The caller appends a node it was returned to the tree of the document.
AppendChild(h) ==
    /\ CanCall
    /\ document[h].parent = "none"
    /\ document' = [document EXCEPT ![h].parent = "root"]
    /\ Called(Call("appendChild", h, this, this, NoWarnings, 0))
    /\ UNCHANGED <<this, constructed>>

Next ==
    \/ \E v \in Vectors : Construct(v)
    \/ \E e \in InputElements : ConstructFromElement(e)
    \/ \E d \in Directions : ProjectOnAxis(d)
    \/ \E n \in Directions : ProjectOnPlane(n)
    \/ \E e \in ResetElements : InitFromDOMElement(e)
    \/ \E h \in 1..Len(document) : InitFromDOMElement(document[h])
    \/ \E name \in Names : DomElement(name)
    \/ \E h \in 1..Len(document) : AppendChild(h)

Spec == Init /\ [][Next]_vars

----------------------------------------------------------------------------
(* What the claims are stated with.                                        *)

IsFiniteVec(v) == \A i \in 1..3 : IsFin(v[i])

AbsF(a) == [a EXCEPT !.m = Abs(a.m)]

\* a <= b, for finite a and b: the sign of a - b, which rounding keeps.
Leq(a, b) == Sub(a, b).m <= 0

\* |x| + |y| + |z|
L1(v) == Add(Add(AbsF(v[1]), AbsF(v[2])), AbsF(v[3]))

\* n units of rounding error: n * 2^-Precision.
Ulps(n) == Fin(n, -Precision)

\* Every component of v is at most bound in magnitude.
Within(v, bound) == \A i \in 1..3 : Leq(AbsF(v[i]), bound)

\* d . d > 1.0E-10
NonDegenerate(d) == IsFiniteVec(d) /\ ~LessEps(squaredNorm(d))

Projected(c) == c.op \in {"projectOnAxis", "projectOnPlane"}

\* The call c is a projection of a finite vector on a non-degenerate argument.
Regular(c, op) ==
    c.op = op /\ IsFiniteVec(c.before) /\ NonDegenerate(c.arg)

\* C1, as stated: after v.projectOnAxis(d), d non-degenerate, the vector p is
\* parallel to d (p x d is the null vector) and v - p is orthogonal to d
\* ((v - p) . d is 0).
C1_ExactProjection ==
    Regular(last, "projectOnAxis") =>
        /\ Cross(last.after, last.arg) = ZeroVec
        /\ Dot(VecSub(last.before, last.after), last.arg) = Zero

\* C1, amended: after v.projectOnAxis(d), v finite and d non-degenerate, the
\* vector is p = ((v . d) / (d . d)) * d as floating point arithmetic
\* evaluates it; p is parallel to d and v - p orthogonal to d up to rounding:
\* every component of p x d is at most 8 units of rounding error times
\* |p|1 |d|1, and (v - p) . d at most 16 units times |v|1 |d|1; and
\* (1, 2, 3) projected on (1, 0, 0) is exactly (1, 0, 0).
C1_ProjectionWithinRounding ==
    Regular(last, "projectOnAxis") =>
        LET v == last.before
            d == last.arg
            p == last.after
        IN /\ this = p
           /\ p = Scale(Div(Dot(v, d), squaredNorm(d)), d)
           /\ Within(Cross(p, d), Mul(Ulps(8), Mul(L1(p), L1(d))))
           /\ Leq(AbsF(Dot(VecSub(v, p), d)), Mul(Ulps(16), Mul(L1(v), L1(d))))
           /\ (v = V3(1, 2, 3) /\ d = V3(1, 0, 0)) => p = V3(1, 0, 0)

\* C1's case: a projection on a direction that is no unit vector, whose
\* quotient (v . d) / (d . d) is rounded.
C1_Witness ==
    /\ Regular(last, "projectOnAxis")
    /\ last.arg = V3(1, 3, 0)
    /\ last.before = V3(1, 2, 3)
    /\ Dot(VecSub(last.before, last.after), last.arg) # Zero

\* C2, as stated: after v.projectOnPlane(n), n non-degenerate, the vector q
\* satisfies q . n = 0 and v - q is parallel to n ((v - q) x n is the null
\* vector).
C2_ExactPlane ==
    Regular(last, "projectOnPlane") =>
        /\ Dot(last.after, last.arg) = Zero
        /\ Cross(VecSub(last.before, last.after), last.arg) = ZeroVec

\* C2, amended: after v.projectOnPlane(n), v finite and n non-degenerate, the
\* vector is q = v - ((v . n) / (n . n)) * n as floating point arithmetic
\* evaluates it; q . n is 0 and v - q parallel to n up to rounding: q . n and
\* every component of (v - q) x n are at most 16 units of rounding error times
\* |v|1 |n|1; and (1, 1, 1) projected on the plane of normal (0, 0, 1) is
\* exactly (1, 1, 0).
C2_PlaneWithinRounding ==
    Regular(last, "projectOnPlane") =>
        LET v == last.before
            n == last.arg
            q == last.after
            tol == Mul(Ulps(16), Mul(L1(v), L1(n)))
        IN /\ this = q
           /\ q = VecSub(v, Scale(Div(Dot(v, n), squaredNorm(n)), n))
           /\ Leq(AbsF(Dot(q, n)), tol)
           /\ Within(Cross(VecSub(v, q), n), tol)
           /\ (v = V3(1, 1, 1) /\ n = V3(0, 0, 1)) => q = V3(1, 1, 0)

\* C2's case: a projection on the plane of a normal that is no unit vector,
\* which leaves a residue along the normal.
C2_Witness ==
    /\ Regular(last, "projectOnPlane")
    /\ last.arg = V3(1, 3, 0)
    /\ last.before = V3(1, 2, 3)
    /\ Dot(last.after, last.arg) # Zero

\* The second of two consecutive calls of op with the same argument, the first
\* one on a finite vector and the argument non-degenerate.
Repeated(first, second) ==
    /\ Regular(prev, first)
    /\ last.op = second
    /\ last.arg = prev.arg
    /\ last.before = prev.after

\* C8, as stated: applying projectOnAxis(d) twice, d non-degenerate, gives the
\* same vector as applying it once.
C8_ExactIdempotence ==
    Repeated("projectOnAxis", "projectOnAxis") => last.after = prev.after

\* C8, amended: applying projectOnAxis(d) twice to a finite vector, d
\* non-degenerate, gives the vector of one application up to rounding: every
\* component of the second result differs from that of the first, p, by at
\* most 16 units of rounding error times the magnitude of p's component.
C8_IdempotenceWithinRounding ==
    Repeated("projectOnAxis", "projectOnAxis") =>
        \A i \in 1..3 :
            Leq(AbsF(Sub(last.after[i], prev.after[i])),
                Mul(Ulps(16), AbsF(prev.after[i])))

\* C8's case: a second projection on the same direction that moves the vector.
C8_Witness ==
    /\ Repeated("projectOnAxis", "projectOnAxis")
    /\ last.after # prev.after

\* C10, as stated: for non-degenerate d, the result of projectOnAxis(d) plus
\* the result of projectOnPlane(d), each applied to a copy of v, equals v;
\* projectOnPlane(d) after projectOnAxis(d) yields the zero vector; and
\* projectOnPlane(d) twice equals projectOnPlane(d) once.
C10_ExactDecomposition ==
    /\ Regular(last, "projectOnAxis") =>
           VecAdd(last.after, projectOnPlane(last.before, last.arg))
               = last.before
    /\ Repeated("projectOnAxis", "projectOnPlane") => last.after = ZeroVec
    /\ Repeated("projectOnPlane", "projectOnPlane") => last.after = prev.after

\* C10, amended: for finite v and non-degenerate d, up to rounding: every
\* component of projectOnAxis(d) of v plus projectOnPlane(d) of v differs from
\* v's by at most 4 units of rounding error times the sum of the magnitudes of
\* v's and the axis projection's component; every component of
\* projectOnPlane(d) applied to p = projectOnAxis(d) of v is at most 16 units
\* times the magnitude of p's component; every component of projectOnPlane(d)
\* applied twice differs from that of one application by at most 16 units
\* times |v|1.
C10_DecompositionWithinRounding ==
    /\ Regular(last, "projectOnAxis") =>
           LET v == last.before
               p == last.after
               q == projectOnPlane(v, last.arg)
           IN \A i \in 1..3 :
                  Leq(AbsF(Sub(Add(p[i], q[i]), v[i])),
                      Mul(Ulps(4), Add(AbsF(v[i]), AbsF(p[i]))))
    /\ Repeated("projectOnAxis", "projectOnPlane") =>
           \A i \in 1..3 :
               Leq(AbsF(last.after[i]), Mul(Ulps(16), AbsF(last.before[i])))
    /\ Repeated("projectOnPlane", "projectOnPlane") =>
           Within(VecSub(last.after, prev.after),
                  Mul(Ulps(16), L1(prev.before)))

\* C10's case: the plane projection of an axis projection on the same
\* direction, which leaves a residue.
C10_Witness ==
    /\ Repeated("projectOnAxis", "projectOnPlane")
    /\ last.after # ZeroVec

\* The directions of the model whose squared norm is below 1.0E-10: the null
\* vector (0) and (5 * 2^-19, 0, 0) (25 * 2^-38, about 9.09E-11).
Degenerate == {ZeroVec, MkVec(Fin(5, -19), Zero, Zero)}

\* C6: a projection emits a warning if and only if the squared norm of its
\* argument is below 1.0E-10 and the build is a debug build; a release build
\* emits none; and with or without a warning the vector becomes the value of
\* the unguarded formula, the same in both builds.
C6_WarningOnlyAdvisory ==
    Projected(last) =>
        LET s == Div(Dot(last.before, last.arg), squaredNorm(last.arg))
        IN /\ last.warnings[TRUE] \in {0, 1}
           /\ last.warnings[TRUE] = 1 <=> LessEps(squaredNorm(last.arg))
           /\ last.warnings[TRUE] = 1 <=> last.arg \in Degenerate
           /\ last.warnings[FALSE] = 0
           /\ this = last.after
           /\ last.op = "projectOnAxis" => last.after = Scale(s, last.arg)
           /\ last.op = "projectOnPlane" =>
                  last.after = VecSub(last.before, Scale(s, last.arg))

\* C6's case: a projection on a direction of squared norm below 1.0E-10 that
\* is not null has warned in the debug build and has changed the vector.
C6_Witness ==
    /\ last.op = "projectOnAxis"
    /\ last.arg = MkVec(Fin(5, -19), Zero, Zero)
    /\ last.warnings[TRUE] = 1
    /\ last.before = V3(1, 2, 3)
    /\ IsFiniteVec(last.after)
    /\ last.after # last.before

\* The numbers the texts of GoodText denote: 1.5, -2.25 and the number
\* nearest to 0.1.
GoodValue == [x |-> Fin(3, -1), y |-> Fin(-9, -2),
              z |-> Div(Int2F(1), Int2F(10))]

\* C4: a vector constructed from an element has, for each of x, y and z, the
\* number its attribute denotes when the attribute is present and is a
\* number, and 0.0 when it is absent or is no number, each axis on its own.
C4_PerAxisDefault ==
    last.op = "VecFromElement" =>
        /\ this = last.after
        /\ \A i \in 1..3 :
               LET a == attribute[i]
                   attrs == last.arg.attrs
               IN this[i] = IF a \in DOMAIN attrs /\ toFloat(attrs[a]).ok
                            THEN toFloat(attrs[a]).value ELSE Zero
        /\ \A good \in SUBSET Axes : \A bad \in SUBSET (Axes \ good) :
               last.arg = Sample(good, bad) =>
                   \A i \in 1..3 :
                       this[i] = IF attribute[i] \in good
                                 THEN GoodValue[attribute[i]] ELSE Zero

\* C4's case: an element whose x is a number, whose y is no number and whose
\* z is missing has made the vector (1.5, 0, 0).
C4_Witness ==
    /\ last.op = "VecFromElement"
    /\ last.arg = Sample({"x"}, {"y"})
    /\ this = MkVec(Fin(3, -1), Zero, Zero)

\* C7: after v.initFromDOMElement(element), v is the vector a construction
\* from element gives, whatever v was before.
C7_InitIsConstructThenAssign ==
    last.op = "initFromDOMElement" =>
        /\ this = last.after
        /\ \A raw \in Garbage :
               /\ last.after = VecFromElement(raw, last.arg).vec
               /\ \A dbg \in Builds :
                      last.warnings[dbg] = VecFromElement(raw, last.arg).warnings

\* C7's case: (1, 2, 3) reset from an element with only y a number is
\* (0, -2.25, 0).
C7_Witness ==
    /\ last.op = "initFromDOMElement"
    /\ last.arg = Sample({"y"}, {"x"})
    /\ last.before = V3(1, 2, 3)
    /\ this = MkVec(Zero, Fin(-9, -2), Zero)

\* A step that is a call of domElement.
DomElementStep == calls' = calls + 1 /\ last'.op = "domElement"

\* C9: a call of domElement(name, document) adds exactly one node to those
\* the document has created and changes none of the others; the node has the
\* tag name and the attributes x, y and z, which hold the texts of the
\* vector's components; it is attached to no parent; the vector is unchanged;
\* and (1.5, -2.25, 0) with the name pos gives <pos x="1.5" y="-2.25" z="0"/>.
C9_OneDetachedElement ==
    [][DomElementStep =>
          LET node == document'[Len(document')]
          IN /\ Len(document') = Len(document) + 1
             /\ SubSeq(document', 1, Len(document)) = document
             /\ last'.ret = Len(document')
             /\ node.tag = last'.arg
             /\ DOMAIN node.attrs = Axes
             /\ \A i \in 1..3 : node.attrs[attribute[i]] = number(this[i])
             /\ node.parent = "none"
             /\ this' = this
             /\ (this = MkVec(Fin(3, -1), Fin(-9, -2), Zero)
                 /\ last'.arg = "pos") =>
                    node = [tag |-> "pos",
                            attrs |-> [x |-> <<"1", ".", "5">>,
                                       y |-> <<"-", "2", ".", "2", "5">>,
                                       z |-> <<"0">>],
                            parent |-> "none"]]_vars

\* C9's case: domElement("pos", document) of (1.5, -2.25, 0) has returned a
\* second node of the document, outside the tree.
C9_Witness ==
    /\ last.op = "domElement"
    /\ last.arg = "pos"
    /\ last.ret = 2
    /\ this = MkVec(Fin(3, -1), Fin(-9, -2), Zero)
    /\ document[2].attrs.y = <<"-", "2", ".", "2", "5">>
    /\ document[2].parent = "none"

\* The second of a call of domElement and a call of initFromDOMElement on
\* the element it returned.
RoundTrip ==
    /\ prev.op = "domElement"
    /\ last.op = "initFromDOMElement"
    /\ last.arg = document[prev.ret]

IsFloat(a) ==
    /\ DOMAIN a = {"k", "m", "e"}
    /\ a.k \in {"fin", "inf", "nan"}
    /\ a.m \in Int /\ a.e \in Int
    /\ a.k = "fin" => a = Fin(a.m, a.e) /\ BitLen(Abs(a.m)) <= Precision

IsVec(v) == DOMAIN v = 1..3 /\ \A i \in 1..3 : IsFloat(v[i])

IsNode(n) ==
    /\ n.tag \in Names
    /\ n.parent \in {"none", "root"}
    /\ DOMAIN n.attrs = Axes
    /\ \A a \in Axes : Len(n.attrs[a]) > 0

\* C5: in every state every operation has a result on every input, the null
\* direction, vectors with components that are not finite and elements with
\* missing or malformed attributes among them: a vector of three numbers
\* (finite, infinite or NaN) or a well formed node; and every call made has
\* returned and left such a vector.
C5_EveryCallCompletes ==
    /\ constructed => IsVec(this)
    /\ last.op # "none" => IsVec(last.after) /\ this = last.after
    /\ \A h \in 1..Len(document) : IsNode(document[h])
    /\ ~constructed =>
           \A e \in InputElements : IsVec(VecFromElement(this, e).vec)
    /\ CanCall =>
           /\ \A d \in Directions :
                  IsVec(projectOnAxis(this, d)) /\ IsVec(projectOnPlane(this, d))
           /\ \A e \in ResetElements : \A raw \in Garbage :
                  IsVec(initFromDOMElement(raw, e).vec)
           /\ \A h \in 1..Len(document) : \A raw \in Garbage :
                  IsVec(initFromDOMElement(raw, document[h]).vec)
           /\ \A name \in Names : IsNode(domElement(this, name))

\* C5's case: a vector with a component that is not finite has been
\* projected on the plane of the null vector, and the call has returned.
C5_Witness ==
    /\ last.op = "projectOnPlane"
    /\ last.arg = ZeroVec
    /\ ~IsFiniteVec(last.before)
    /\ IsVec(this)
    /\ IsNaN(this[1])

====
